---- MODULE Spec2Model ----
(***************************************************************************)
(* The watcher orchestrator of src/src/watchers/manager.py: WatcherManager *)
(* with its start() and stop() coroutines, run by one caller at a time.    *)
(* A coroutine is cut into steps at its awaits; pc is the position of the  *)
(* running coroutine, log the calls it has made so far.  Strings are       *)
(* sequences of one-character strings, dicts are functions from keys.      *)
(* Spec is the manager once built; LiveSpec adds what the event loop       *)
(* guarantees of a stop(); SingletonSpec is get_instance() and the         *)
(* constructor in a process where no manager exists yet.                   *)
(***************************************************************************)
EXTENDS Integers, Sequences, FiniteSets, TLC

VARIABLES
    cfg,              \* Config's "watchers" section, as config.get("watchers", {}) returns it
    watchers,         \* self.watchers: an insertion-ordered dict, name -> watcher instance
    webhook_server,   \* self.webhook_server: FALSE is None, TRUE the WebhookServer singleton
    srv,              \* the WebhookServer singleton: "new", "listening" or "stopped"
    srvPort,          \* the port the listener is bound to, 0 when not listening
    pc,               \* position of the running coroutine, "idle" when none runs
    env_watchers,     \* start()'s local: what os.getenv("R4DAR_WATCHERS") gave
    active_watchers,  \* start()'s local: the active list
    webhook_port,     \* start()'s local
    idx,              \* start()'s loop position in active_watchers (1-based)
    watcher,          \* start()'s local: the instance being brought up, 0 when none
    stop_tasks,       \* stop()'s local: the stop() coroutines handed to asyncio.gather
    log,              \* the calls made by the running coroutine, in order
    nextId,           \* identity of the next watcher instance constructed
    attempted,        \* active-list entries taken on by start() so far
    prior,            \* how the call before this one ended when it was a stop(), else "none"
    instance,         \* WatcherManager._instance: 0 is None, else the instance's identity
    made,             \* WatcherManager objects whose __init__ has returned
    results,          \* what each get_instance() and WatcherManager() call gave, in order
    package,          \* the modules of the package src.watchers, each with its members
    watcher_classes,  \* what _discover_watchers() returned: a dict, module name -> class
    max_history,      \* Chatbot.max_history
    history,          \* Chatbot.history
    added,            \* every message handed to _add_to_history so far, in order
    cpc,              \* position of process_message(), "idle" when it does not run
    call_added,       \* the messages the running process_message() added to history
    ret,              \* what the last process_message() gave its caller
    github_token,     \* what config.get("github.api_token") gives
    jobs,             \* the jobs handed to JobManager.submit_job so far
    gpc,              \* position of GithubMonitorAction.execute(), "idle" when it does not run
    gnew,             \* the jobs the running execute() has submitted
    gret              \* what the last execute() gave its caller

\* the class attribute and the record of the constructions
cls == << instance, made, results >>

\* the manager's own state
mgr == << cfg, watchers, webhook_server, srv, srvPort, pc, env_watchers, active_watchers,
          webhook_port, idx, watcher, stop_tasks, log, nextId, attempted, prior >>
\* discovery's input and result; the chatbot; the GitHub monitor action
disc == << package, watcher_classes >>
chat == << max_history, history, added, cpc, call_added, ret >>
gh == << github_token, jobs, gpc, gnew, gret >>

vars == << mgr, cls, disc, chat, gh >>

(***************************************************************************)
(* Bounds of the model.                                                    *)
(***************************************************************************)
MaxList == 2        \* longest active_watchers list in the configuration
MaxEnvLen == 3      \* longest R4DAR_WATCHERS string
MaxEntries == 2     \* active-list entries processed per behaviour
MaxAccess == 5      \* get_instance() and WatcherManager() calls per behaviour
MaxMembers == 2     \* members of one plugin module that discovery looks at
MaxHistory == 2     \* largest max_history a Chatbot is built with
MaxAdds == 4        \* messages handed to _add_to_history per behaviour
MaxPlanLen == 4     \* longest reply of chat_completion to the planning request
MaxJobs == 4        \* jobs the job manager takes per behaviour

(***************************************************************************)
(* Names and strings.                                                      *)
(***************************************************************************)
NameA == <<"a">>
NameB == <<"b">>
NameX == <<"x">>

\* the characters an R4DAR_WATCHERS value is made of
EnvChars == {"a", ",", " "}

\* str.isspace for the characters of the model
IsSpace(c) == c = " "

RECURSIVE LStrip(_)
LStrip(s) ==
    IF s # <<>> /\ IsSpace(Head(s)) THEN LStrip(Tail(s)) ELSE s

RECURSIVE RStrip(_)
RStrip(s) ==
    IF s # <<>> /\ IsSpace(s[Len(s)]) THEN RStrip(SubSeq(s, 1, Len(s) - 1)) ELSE s

\* str.strip()
Strip(s) == RStrip(LStrip(s))

\* index of the first "," of s, 0 when there is none
FirstComma(s) ==
    IF \E i \in 1..Len(s) : s[i] = ","
    THEN CHOOSE i \in 1..Len(s) : s[i] = "," /\ \A j \in 1..(i - 1) : s[j] # ","
    ELSE 0

\* str.split(","): always at least one entry, empty entries kept
RECURSIVE Split(_)
Split(s) ==
    LET i == FirstComma(s)
    IN  IF i = 0 THEN << s >>
        ELSE << SubSeq(s, 1, i - 1) >> \o Split(SubSeq(s, i + 1, Len(s)))

\* faulty variant: the entries are not stripped
ParseEnvWatchers_NoStrip(s) == Split(s)

\* [w.strip() for w in env_watchers.split(",")]
ParseEnvWatchers(s) ==
    LET parts == Split(s)
    IN  [i \in 1..Len(parts) |-> Strip(parts[i])]

\* all sequences over S of length lo..hi
SeqsOf(S, lo, hi) == UNION { [1..n -> S] : n \in lo..hi }

(***************************************************************************)
(* Inputs: the environment variable and the configuration.                *)
(***************************************************************************)
\* os.getenv("R4DAR_WATCHERS"): None, or a string
EnvUnset == [isset |-> FALSE, val |-> <<>>]
EnvValues ==
    {EnvUnset} \cup { [isset |-> TRUE, val |-> s] : s \in SeqsOf(EnvChars, 0, MaxEnvLen) }

\* Python truthiness of the getenv result: None and "" are false
EnvTruthy(env) == env.isset /\ env.val # <<>>

DefaultWebhookPort == 8080
\* the values the configuration gives "webhook_port"
WebhookPortValues == {9090}

EmptyDict == << >>
HasKey(d, k) == k \in DOMAIN d
\* dict.get(k, default)
Get(d, k, default) == IF HasKey(d, k) THEN d[k] ELSE default
\* d[k] = v
Put(d, k, v) == [x \in DOMAIN d \cup {k} |-> IF x = k THEN v ELSE d[x]]

ConfigKeys == {"enabled", "active_watchers", "webhook_port"}
ConfigLists == SeqsOf({NameA, NameB, NameX}, 0, MaxList)

\* the "watchers" sections the model starts from: every subset of the keys;
\* where "enabled" is not True the list, which is then read by no path that
\* uses the configuration, takes one value only
ConfigValues ==
    LET full == [enabled : BOOLEAN, active_watchers : ConfigLists, webhook_port : WebhookPortValues]
        all  == { [k \in D |-> f[k]] : f \in full, D \in SUBSET ConfigKeys }
    IN  { d \in all :
            \/ (HasKey(d, "enabled") /\ d["enabled"])
            \/ ~HasKey(d, "active_watchers")
            \/ d["active_watchers"] = << NameA >> }

\* the plugin modules of the package src.watchers, in the order
\* pkgutil.iter_modules yields them; each holds one watcher class
PluginModules == << NameA, NameB >>

\* _discover_watchers() when the import of the modules in `bad` raises: the
\* import of line 42 stands in no try, so the first one that raises ends
\* the scan and the exception leaves _discover_watchers()
discover_watchers(bad) ==
    LET failing == { i \in 1..Len(PluginModules) : PluginModules[i] \in bad }
    IN  IF failing = {}
        THEN [res |-> "ok", who |-> 0,
              classes |-> { PluginModules[i] : i \in 1..Len(PluginModules) }]
        ELSE [res |-> "raise", who |-> CHOOSE i \in failing : \A j \in failing : i <= j,
              classes |-> {}]

\* _discover_watchers(): the names that resolve to a watcher class
Discovered == discover_watchers({}).classes

(***************************************************************************)
(* The configuration gate of start(), lines 51-75.                        *)
(***************************************************************************)
\* faulty variant: the gate without the check for an empty active list
GateOpen_NoEmptyCheck(d, env) ==
    IF EnvTruthy(env) THEN TRUE
    ELSE IF d = EmptyDict \/ ~HasKey(d, "enabled") THEN FALSE
    ELSE d["enabled"]

\* whether start() goes past the gate
GateOpen(d, env) ==
    IF EnvTruthy(env) THEN TRUE
    ELSE IF d = EmptyDict \/ ~HasKey(d, "enabled") THEN FALSE
    ELSE IF ~d["enabled"] THEN FALSE
    ELSE Get(d, "active_watchers", <<>>) # <<>>

\* the active list start() works on when the gate is open
ActiveList(d, env) ==
    IF EnvTruthy(env) THEN ParseEnvWatchers(env.val)
    ELSE Get(d, "active_watchers", <<>>)

\* watcher_config after the gate: the override sets "enabled"
GatedConfig(d, env) ==
    IF EnvTruthy(env) THEN Put(d, "enabled", TRUE) ELSE d

\* webhook_port = watcher_config.get("webhook_port", 8080)
WebhookPort(d) == Get(d, "webhook_port", DefaultWebhookPort)

(***************************************************************************)
(* The log of the running coroutine.                                       *)
(***************************************************************************)
Ev(op, who, res) == << op, who, res >>
LoggedIn(l, e) == \E i \in 1..Len(l) : l[i] = e
Logged(e) == LoggedIn(log, e)
Count(op, res) == Cardinality({ i \in 1..Len(log) : log[i][1] = op /\ log[i][3] = res })
\* position of the first occurrence of e in the log, 0 when absent
At(e) ==
    IF Logged(e) THEN CHOOSE i \in 1..Len(log) : log[i] = e /\ \A j \in 1..(i - 1) : log[j] # e
    ELSE 0

\* dict operations on self.watchers
WatcherNames == { watchers[i].name : i \in 1..Len(watchers) }
WatcherIds == { watchers[i].id : i \in 1..Len(watchers) }
\* self.watchers[name] = w: an existing key keeps its place
SetItem(m, name, w) ==
    IF \E i \in 1..Len(m) : m[i].name = name
    THEN [i \in 1..Len(m) |-> IF m[i].name = name THEN [name |-> name, id |-> w] ELSE m[i]]
    ELSE Append(m, [name |-> name, id |-> w])
\* self.watchers.get(name), line 148: the instance, 0 for None
get_watcher(name) ==
    IF \E i \in 1..Len(watchers) : watchers[i].name = name
    THEN watchers[CHOOSE i \in 1..Len(watchers) : watchers[i].name = name].id
    ELSE 0
\* list(self.watchers.keys()), line 152
list_watchers == [i \in 1..Len(watchers) |-> watchers[i].name]

(***************************************************************************)
(* The webhook listener, WebhookServer: a singleton with start(port) and   *)
(* stop().  An outcome is how the call ends and the listener it leaves.    *)
(***************************************************************************)
\* start(port) binds the port, or raises: the bind can fail, and a listener
\* that is listening refuses to start again
ListenerStart(state, port, newPort) ==
    { [res |-> "raise", srv |-> state, port |-> port] }
        \cup (IF state # "listening"
              THEN { [res |-> "ok", srv |-> "listening", port |-> newPort] }
              ELSE {})

\* stop() closes a listening listener and does nothing to another; a stop()
\* that raises leaves the listener as it was
ListenerStop(state, port) ==
    { [res |-> "ok", srv |-> IF state = "listening" THEN "stopped" ELSE state, port |-> 0],
      [res |-> "raise", srv |-> state, port |-> port] }

\* the other components at rest: discovery has not run, there is no
\* chatbot, no action is executing
NotRun == [run |-> FALSE, classes |-> << >>]
NoDiscovery ==
    /\ package = <<>>
    /\ watcher_classes = NotRun
\* no value returned (yet)
NoRet == [kind |-> "none", text |-> << >>]
NoChatbot ==
    /\ max_history = 0
    /\ history = <<>>
    /\ added = <<>>
    /\ cpc = "idle"
    /\ call_added = <<>>
    /\ ret = NoRet
\* config.get gives None for a key that is not set
None == [isset |-> FALSE, val |-> ""]
NoAction ==
    /\ github_token = None
    /\ jobs = <<>>
    /\ gpc = "idle"
    /\ gnew = <<>>
    /\ gret = NoRet

\* get_instance() has built the manager, lines 21-32; no call has run yet
Init ==
    /\ NoDiscovery /\ NoChatbot /\ NoAction
    /\ cfg \in ConfigValues
    /\ watchers = <<>>
    /\ webhook_server = FALSE
    /\ srv = "new"
    /\ srvPort = 0
    /\ pc = "idle"
    /\ env_watchers = EnvUnset
    /\ active_watchers = <<>>
    /\ webhook_port = 0
    /\ idx = 0
    /\ watcher = 0
    /\ stop_tasks = <<>>
    /\ log = <<>>
    /\ nextId = 1
    /\ attempted = 0
    /\ prior = "none"
    /\ instance = 1
    /\ made = 1
    /\ results = <<>>


(***************************************************************************)
(* start(), lines 49-126.                                                  *)
(***************************************************************************)
\* faulty variant: every name of the list is taken to resolve
Resolves_Always(name) == TRUE

\* `if watcher_name in watcher_classes`, line 87
Resolves(name) == name \in Discovered

\* faulty variant: no `except` around the steps of one watcher
AfterWatcherFailure_Uncaught == "start_raised"

\* where start() goes when a step of one watcher raises: the `except
\* Exception` of line 116 logs it and the loop goes on
AfterWatcherFailure == "start_loop"

\* faulty variant: the loop stops one entry early
LoopFinished_OneEarly == idx >= Len(active_watchers)

\* the `for` of line 86 has run out
LoopFinished == idx > Len(active_watchers)

\* faulty variant: no `except` around the listener's start
AfterListenerFailure_Uncaught == "start_raised"

\* where start() goes when the listener's start(port) raises: the `except
\* Exception` of line 125 logs it and start() returns
AfterListenerFailure == "start_returned"

\* the calls start() makes once past the gate, lines 79 and 82
PastGateCalls == << Ev("WebhookServer.get_instance", 0, "ok"), Ev("_discover_watchers", 0, "ok") >>

\* lines 51-78: the gate, up to the await of line 79.  The override's write
\* to watcher_config reaches the stored configuration when config.get
\* returned the stored dict, and not when it returned a copy or the default.
start_begin(env) ==
    /\ pc = "idle"
    /\ env_watchers' = env
    /\ IF ~GateOpen(cfg, env)
       THEN /\ pc' = "start_returned"
            /\ log' = <<>>
            /\ UNCHANGED << cfg, watchers, webhook_server, srv, srvPort, active_watchers,
                            webhook_port, idx, watcher, stop_tasks, nextId, attempted, prior, cls, disc, chat, gh >>
       ELSE /\ attempted + Len(ActiveList(cfg, env)) <= MaxEntries
            /\ cfg' \in {GatedConfig(cfg, env), cfg}
            /\ active_watchers' = ActiveList(cfg, env)
            /\ attempted' = attempted + Len(ActiveList(cfg, env))
            /\ webhook_port' = WebhookPort(GatedConfig(cfg, env))
            /\ log' = <<>>
            /\ pc' = "start_acquire"
            /\ prior' = "none"
            /\ UNCHANGED << watchers, webhook_server, srv, srvPort, idx, watcher,
                            stop_tasks, nextId, cls, disc, chat, gh >>

\* where start() goes when _discover_watchers() raises: line 82 stands in
\* no try, the exception leaves start()
AfterDiscoveryFailure == "start_raised"

\* lines 79-85: WebhookServer.get_instance() has returned the singleton,
\* discovery runs, the loop begins.  env_watchers is not read again and is
\* dropped here.
start_acquire ==
    /\ pc = "start_acquire"
    /\ webhook_server' = TRUE
    /\ \E bad \in SUBSET { PluginModules[i] : i \in 1..Len(PluginModules) } :
          LET d == discover_watchers(bad)
          IN  IF d.res = "ok"
              THEN /\ log' = PastGateCalls
                   /\ pc' = "start_loop"
              ELSE /\ log' = << Ev("WebhookServer.get_instance", 0, "ok"),
                                Ev("_discover_watchers", d.who, "raise") >>
                   /\ pc' = AfterDiscoveryFailure
    /\ idx' = 1
    /\ env_watchers' = EnvUnset
    /\ UNCHANGED << cfg, watchers, srv, srvPort, active_watchers, webhook_port, watcher,
                    stop_tasks, nextId, attempted, prior, cls, disc, chat, gh >>

\* lines 118-119: a name discovery did not return is warned about and skipped
start_skip_unknown ==
    /\ pc = "start_loop"
    /\ ~LoopFinished
    /\ ~Resolves(active_watchers[idx])
    /\ log' = Append(log, Ev("skip", idx, "warning"))
    /\ idx' = idx + 1
    /\ UNCHANGED << cfg, watchers, webhook_server, srv, srvPort, pc, env_watchers, active_watchers,
                    webhook_port, watcher, stop_tasks, nextId, attempted, prior, cls, disc, chat, gh >>

\* lines 88-97: the constructor, then the call of initialize()
start_construct ==
    /\ pc = "start_loop"
    /\ ~LoopFinished
    /\ Resolves(active_watchers[idx])
    /\ nextId' = nextId + 1
    /\ \/ /\ log' = log \o << Ev("construct", nextId, "ok"), Ev("initialize", nextId, "call") >>
          /\ watcher' = nextId
          /\ pc' = "start_initialize"
          /\ UNCHANGED idx
       \/ /\ log' = Append(log, Ev("construct", nextId, "raise"))
          /\ watcher' = 0
          /\ pc' = AfterWatcherFailure
          /\ idx' = idx + 1
    /\ UNCHANGED << cfg, watchers, webhook_server, srv, srvPort, env_watchers, active_watchers,
                    webhook_port, stop_tasks, attempted, prior, cls, disc, chat, gh >>

\* faulty variant: start() is called and not awaited, the loop goes on
AfterStartCall_NotAwaited == "start_loop"

\* `await watcher.start()`, line 108: the loop waits for start() to settle
AfterStartCall == "start_start"

\* the instance start() records under a name once initialize() returned, line 99
RecordAfterInitialize(m, name, w) == SetItem(m, name, w)

\* lines 97-108: initialize() settles; on success the instance is recorded,
\* its routes are registered when it has register_routes, and start() is called
start_initialize_done ==
    /\ pc = "start_initialize"
    /\ \/ /\ log' = Append(log, Ev("initialize", watcher, "raise"))
          /\ pc' = AfterWatcherFailure
          /\ idx' = idx + 1
          /\ watcher' = 0
          /\ UNCHANGED watchers
       \/ /\ watchers' = RecordAfterInitialize(watchers, active_watchers[idx], watcher)
          /\ \/ /\ log' = log \o << Ev("initialize", watcher, "ok"),
                                    Ev("start", watcher, "call") >>
                /\ pc' = AfterStartCall
                /\ UNCHANGED << idx, watcher >>
             \/ /\ webhook_server
                /\ log' = log \o << Ev("initialize", watcher, "ok"),
                                    Ev("register_routes", watcher, "ok"),
                                    Ev("start", watcher, "call") >>
                /\ pc' = AfterStartCall
                /\ UNCHANGED << idx, watcher >>
             \/ /\ webhook_server
                /\ log' = log \o << Ev("initialize", watcher, "ok"),
                                    Ev("register_routes", watcher, "raise") >>
                /\ pc' = AfterWatcherFailure
                /\ idx' = idx + 1
                /\ watcher' = 0
    /\ UNCHANGED << cfg, webhook_server, srv, srvPort, env_watchers, active_watchers, webhook_port,
                    stop_tasks, nextId, attempted, prior, cls, disc, chat, gh >>

\* lines 108-117: the watcher's start() settles.  The task-status lines
\* 110-115 only log; a failure there is caught like any other and leaves
\* the same state as a start() that returned.
start_start_done ==
    /\ pc = "start_start"
    /\ \/ /\ log' = Append(log, Ev("start", watcher, "ok"))
          /\ pc' = "start_loop"
       \/ /\ log' = Append(log, Ev("start", watcher, "raise"))
          /\ pc' = AfterWatcherFailure
    /\ idx' = idx + 1
    /\ watcher' = 0
    /\ UNCHANGED << cfg, watchers, webhook_server, srv, srvPort, env_watchers, active_watchers,
                    webhook_port, stop_tasks, nextId, attempted, prior, cls, disc, chat, gh >>

\* line 123: the loop is over, the listener's start(port) is called
start_listener ==
    /\ pc = "start_loop"
    /\ LoopFinished
    /\ log' = Append(log, Ev("listener.start", webhook_port, "call"))
    /\ pc' = "start_listener"
    /\ UNCHANGED << cfg, watchers, webhook_server, srv, srvPort, env_watchers, active_watchers,
                    webhook_port, idx, watcher, stop_tasks, nextId, attempted, prior, cls, disc, chat, gh >>

\* lines 123-126: the listener's start(port) settles.  The listener binds the
\* port, or fails to; a listener already listening refuses a second start.
start_listener_done ==
    /\ pc = "start_listener"
    /\ \E o \in ListenerStart(srv, srvPort, webhook_port) :
          /\ srv' = o.srv
          /\ srvPort' = o.port
          /\ log' = Append(log, Ev("listener.start", webhook_port, o.res))
          /\ pc' = IF o.res = "ok" THEN "start_returned" ELSE AfterListenerFailure
    /\ UNCHANGED << cfg, watchers, webhook_server, env_watchers, active_watchers, webhook_port, idx,
                    watcher, stop_tasks, nextId, attempted, prior, cls, disc, chat, gh >>

(***************************************************************************)
(* stop(), lines 128-144.                                                  *)
(***************************************************************************)
Settled(t) == t.st \in {"ok", "raise"}

\* faulty variant: the wait ends with the first awaitable that settles
GatherDone_FirstCompleted(tasks) == \E i \in 1..Len(tasks) : Settled(tasks[i])

\* asyncio.gather(*stop_tasks, return_exceptions=True) is done: every
\* awaitable has returned or raised
GatherDone(tasks) == \A i \in 1..Len(tasks) : Settled(tasks[i])

\* faulty variant: gather without return_exceptions=True hands on a watcher's exception
AfterGather_Propagates(tasks) ==
    IF \E i \in 1..Len(tasks) : tasks[i].st = "raise" THEN "stop_raised" ELSE "stop_listener_call"

\* what the await of gather gives stop(): with return_exceptions=True the
\* exceptions are results, and stop() goes on
AfterGather(tasks) == "stop_listener_call"

\* faulty variant: the map is left as it is
Clear_Kept(m) == m

\* self.watchers.clear(), line 144
Clear(m) == <<>>

\* lines 130-135: one stop() coroutine per active watcher, in dict order
stop_begin ==
    /\ pc = "idle"
    /\ stop_tasks' = [i \in 1..Len(watchers) |-> [id |-> watchers[i].id, st |-> "issued"]]
    /\ log' = [i \in 1..Len(watchers) |-> Ev("stop", watchers[i].id, "issued")]
    /\ pc' = "stop_gather"
    /\ UNCHANGED << cfg, watchers, webhook_server, srv, srvPort, env_watchers, active_watchers,
                    webhook_port, idx, watcher, nextId, attempted, prior, cls, disc, chat, gh >>

\* gather wraps the coroutines in tasks; the event loop runs each task's
\* first step in the order they were handed over.  A step ends with the
\* watcher's stop() suspended, returned or raised.
stop_task_first(i) ==
    /\ pc = "stop_gather"
    /\ stop_tasks[i].st = "issued"
    /\ \A j \in 1..(i - 1) : stop_tasks[j].st # "issued"
    /\ \E st \in {"running", "ok", "raise"} :
          /\ stop_tasks' = [stop_tasks EXCEPT ![i].st = st]
          /\ log' = log \o << Ev("stop", stop_tasks[i].id, "call"),
                               Ev("stop", stop_tasks[i].id, IF st = "running" THEN "suspend" ELSE st) >>
    /\ UNCHANGED << cfg, watchers, webhook_server, srv, srvPort, pc, env_watchers, active_watchers,
                    webhook_port, idx, watcher, nextId, attempted, prior, cls, disc, chat, gh >>

\* faulty variant: a suspended stop() is resumed while others have not begun
MayResume_BeforeOthersBegin(tasks, i) == tasks[i].st = "running"

\* gather has queued the first step of every task before any of them runs
\* (lines 135-138), and the loop's queue is first in, first out: a task that
\* suspended is resumed only behind the first steps of all the others
MayResume(tasks, i) ==
    /\ tasks[i].st = "running"
    /\ \A j \in 1..Len(tasks) : tasks[j].st # "issued"

\* a suspended stop() is resumed and returns or raises
stop_task_resume(i) ==
    /\ pc = "stop_gather"
    /\ MayResume(stop_tasks, i)
    /\ \E st \in {"ok", "raise"} :
          /\ stop_tasks' = [stop_tasks EXCEPT ![i].st = st]
          /\ log' = Append(log, Ev("stop", stop_tasks[i].id, st))
    /\ UNCHANGED << cfg, watchers, webhook_server, srv, srvPort, pc, env_watchers, active_watchers,
                    webhook_port, idx, watcher, nextId, attempted, prior, cls, disc, chat, gh >>

\* lines 137-144: with no task, or once gather is done, stop() calls the
\* listener's stop() when it holds a listener, and clears the map otherwise
stop_after_gather ==
    /\ pc = "stop_gather"
    /\ stop_tasks = <<>> \/ GatherDone(stop_tasks)
    /\ IF stop_tasks # <<>> /\ AfterGather(stop_tasks) # "stop_listener_call"
       THEN /\ pc' = AfterGather(stop_tasks)
            /\ UNCHANGED << watchers, log >>
       ELSE IF webhook_server
       THEN /\ log' = Append(log, Ev("listener.stop", 0, "call"))
            /\ pc' = "stop_listener"
            /\ UNCHANGED watchers
       ELSE /\ watchers' = Clear(watchers)
            /\ pc' = "stop_returned"
            /\ UNCHANGED log
    /\ UNCHANGED << cfg, webhook_server, srv, srvPort, env_watchers, active_watchers, webhook_port,
                    idx, watcher, stop_tasks, nextId, attempted, prior, cls, disc, chat, gh >>

\* lines 142-144: the listener's stop() settles; when it returns the map is
\* cleared, when it raises the exception leaves stop()
stop_listener_done ==
    /\ pc = "stop_listener"
    /\ \E o \in ListenerStop(srv, srvPort) :
          /\ srv' = o.srv
          /\ srvPort' = o.port
          /\ log' = Append(log, Ev("listener.stop", 0, o.res))
          /\ watchers' = IF o.res = "ok" THEN Clear(watchers) ELSE watchers
          /\ pc' = IF o.res = "ok" THEN "stop_returned" ELSE "stop_raised"
    /\ UNCHANGED << cfg, webhook_server, env_watchers, active_watchers, webhook_port, idx, watcher,
                    stop_tasks, nextId, attempted, prior, cls, disc, chat, gh >>

\* the coroutine is over: its locals are gone, the caller has the result
Finished == pc \in {"start_returned", "start_raised", "stop_returned", "stop_raised"}

return ==
    /\ Finished
    /\ pc' = "idle"
    /\ env_watchers' = EnvUnset
    /\ active_watchers' = <<>>
    /\ webhook_port' = 0
    /\ idx' = 0
    /\ watcher' = 0
    /\ stop_tasks' = <<>>
    /\ log' = <<>>
    /\ prior' = (IF pc = "stop_returned" THEN "returned"
                 ELSE IF pc = "stop_raised" THEN "raised" ELSE "none")
    /\ UNCHANGED << cfg, watchers, webhook_server, srv, srvPort, nextId, attempted, cls, disc, chat, gh >>

\* start() is called, in some environment
start ==
    /\ pc = "idle"
    /\ \E env \in EnvValues : start_begin(env)

Next ==
    \/ start
    \/ start_acquire
    \/ start_skip_unknown
    \/ start_construct
    \/ start_initialize_done
    \/ start_start_done
    \/ start_listener
    \/ start_listener_done
    \/ stop_begin
    \/ \E i \in 1..Len(stop_tasks) : stop_task_first(i)
    \/ \E i \in 1..Len(stop_tasks) : stop_task_resume(i)
    \/ stop_after_gather
    \/ stop_listener_done
    \/ return

Spec == Init /\ [][Next]_vars

\* What the event loop guarantees of a stop() under way: a task handed to
\* gather gets its first step, stop() is resumed once gather is done, the
\* listener's stop() settles, and the result reaches the caller.  Nothing
\* makes a watcher's suspended stop() complete: line 138 waits for it
\* without a timeout.
StopFairness ==
    /\ WF_vars(\E i \in 1..Len(stop_tasks) : stop_task_first(i))
    /\ WF_vars(stop_after_gather)
    /\ WF_vars(stop_listener_done)
    /\ WF_vars(return)

LiveSpec == Init /\ [][Next]_vars /\ StopFairness

(***************************************************************************)
(* The singleton, lines 16-32: get_instance() and the constructor, called  *)
(* any number of times from a process in which no manager exists yet.      *)
(***************************************************************************)
\* faulty variant: __init__ without the guard of lines 26-27
init_Unguarded(inst, me, ok) ==
    IF ~ok THEN [res |-> "raise", instance |-> inst]
    ELSE [res |-> "ok", instance |-> me]

\* __init__ on the fresh object `me` while _instance is inst: RuntimeError
\* when an instance exists; else Logger() and Config() of lines 28-29 return
\* (ok) or raise, and on return line 32 stores the object
init(inst, me, ok) ==
    IF inst # 0 THEN [res |-> "RuntimeError", instance |-> inst]
    ELSE IF ~ok THEN [res |-> "raise", instance |-> inst]
    ELSE [res |-> "ok", instance |-> me]

\* a process in which no manager exists
NoManager ==
    /\ cfg = EmptyDict
    /\ watchers = <<>>
    /\ webhook_server = FALSE
    /\ srv = "new"
    /\ srvPort = 0
    /\ pc = "idle"
    /\ env_watchers = EnvUnset
    /\ active_watchers = <<>>
    /\ webhook_port = 0
    /\ idx = 0
    /\ watcher = 0
    /\ stop_tasks = <<>>
    /\ log = <<>>
    /\ nextId = 1
    /\ attempted = 0
    /\ prior = "none"
    /\ instance = 0
    /\ made = 0
    /\ results = <<>>

SingletonInit == NoManager /\ NoDiscovery /\ NoChatbot /\ NoAction

\* WatcherManager(): a direct construction, lines 25-32
WatcherManager ==
    /\ Len(results) < MaxAccess
    /\ \E ok \in BOOLEAN :
          LET o == init(instance, made + 1, ok)
          IN  /\ instance' = o.instance
              /\ made' = IF o.res = "ok" THEN made + 1 ELSE made
              /\ results' = Append(results,
                     [op |-> "WatcherManager", res |-> o.res,
                      id |-> IF o.res = "ok" THEN made + 1 ELSE 0])
    /\ UNCHANGED << cfg, watchers, webhook_server, srv, srvPort, pc, env_watchers,
                    active_watchers, webhook_port, idx, watcher, stop_tasks, log, nextId,
                    attempted, prior, disc, chat, gh >>

\* get_instance(), lines 19-23: builds the instance when there is none,
\* and returns cls._instance
get_instance ==
    /\ Len(results) < MaxAccess
    /\ IF instance = 0
       THEN \E ok \in BOOLEAN :
               LET o == init(instance, made + 1, ok)
               IN  /\ instance' = o.instance
                   /\ made' = IF o.res = "ok" THEN made + 1 ELSE made
                   /\ results' = Append(results,
                          [op |-> "get_instance", res |-> o.res,
                           id |-> IF o.res = "ok" THEN o.instance ELSE 0])
       ELSE /\ results' = Append(results, [op |-> "get_instance", res |-> "ok", id |-> instance])
            /\ UNCHANGED << instance, made >>
    /\ UNCHANGED << cfg, watchers, webhook_server, srv, srvPort, pc, env_watchers,
                    active_watchers, webhook_port, idx, watcher, stop_tasks, log, nextId,
                    attempted, prior, disc, chat, gh >>

SingletonNext ==
    \/ WatcherManager
    \/ get_instance

SingletonSpec == SingletonInit /\ [][SingletonNext]_vars

(***************************************************************************)
(* _discover_watchers(), lines 34-47, on a package whose imports succeed:  *)
(* what it maps each module name to.  A module is its name and its         *)
(* members in the order inspect.getmembers gives them (by member name); a  *)
(* member is an object that is no class, a class that is no watcher, the   *)
(* base class WatcherJob, or a watcher class, known by the module that     *)
(* implements it.                                                          *)
(***************************************************************************)
NameManager == << "manager" >>
NameWebhookServer == << "webhook_server" >>

ObjectMember == [kind |-> "object", home |-> <<>>, n |-> 0]
ClassMember == [kind |-> "class", home |-> <<>>, n |-> 0]
WatcherJob == [kind |-> "WatcherJob", home |-> <<>>, n |-> 0]
Subclass(home, n) == [kind |-> "subclass", home |-> home, n |-> n]

isclass(item) == item.kind # "object"
\* issubclass(item, WatcherJob): a class is a subclass of itself
issubclass_WatcherJob(item) == item.kind \in {"WatcherJob", "subclass"}

\* the test of line 44
IsWatcherClass(item) == isclass(item) /\ issubclass_WatcherJob(item) /\ item # WatcherJob

\* lines 43-45: every member that passes the test is stored under the
\* module's name, a later one over an earlier one
RECURSIVE ScanMembers(_, _, _)
ScanMembers(classes, name, members) ==
    IF members = <<>> THEN classes
    ELSE ScanMembers(IF IsWatcherClass(Head(members)) THEN Put(classes, name, Head(members))
                     ELSE classes,
                     name, Tail(members))

\* lines 40-45: the modules of the package but for the two support modules
RECURSIVE ScanModules(_, _)
ScanModules(classes, pkg) ==
    IF pkg = <<>> THEN classes
    ELSE ScanModules(IF Head(pkg).name # NameManager /\ Head(pkg).name # NameWebhookServer
                     THEN ScanMembers(classes, Head(pkg).name, Head(pkg).members)
                     ELSE classes,
                     Tail(pkg))

\* lines 36-47
discover_classes(pkg) == ScanModules(EmptyDict, pkg)

\* what a plugin module can hold: its own watcher class, and what it imports
PluginMembers ==
    {ObjectMember, ClassMember, WatcherJob, Subclass(NameA, 1), Subclass(NameB, 1)}
\* what a support module holds: manager.py imports WatcherJob (line 2)
SupportMembers ==
    { << ClassMember, WatcherJob >>, << Subclass(NameA, 1), WatcherJob >> }
Packages ==
    { << [name |-> NameA, members |-> ma], [name |-> NameB, members |-> mb],
         [name |-> NameManager, members |-> mm],
         [name |-> NameWebhookServer, members |-> mw] >> :
        ma \in SeqsOf(PluginMembers, 0, MaxMembers), mb \in SeqsOf(PluginMembers, 0, MaxMembers),
        mm \in SupportMembers, mw \in SupportMembers }

DiscoveryInit ==
    /\ NoManager /\ NoChatbot /\ NoAction
    /\ package \in Packages
    /\ watcher_classes = NotRun

\* _discover_watchers() runs on the package and returns
discover ==
    /\ ~watcher_classes.run
    /\ watcher_classes' = [run |-> TRUE, classes |-> discover_classes(package)]
    /\ UNCHANGED << mgr, cls, package, chat, gh >>

DiscoveryNext == discover

DiscoverySpec == DiscoveryInit /\ [][DiscoveryNext]_vars

(***************************************************************************)
(* The chatbot of src/src/agents/chatbot.py: its history, kept by          *)
(* _add_to_history(), and process_message(), cut at its awaits.  A text is *)
(* a sequence of tokens: the marker EXECUTE:, a space, and "<", a          *)
(* character that is no space and that html.escape rewrites.               *)
(***************************************************************************)
Min(a, b) == IF a <= b THEN a ELSE b
Max(a, b) == IF a >= b THEN a ELSE b

Message(role, content) == [role |-> role, content |-> content]
\* {"role": "system", "content": self.system_prompt}, line 38
SystemMessage == Message("system", << "system_prompt" >>)

\* l[-(m):] for m >= 0: the last m elements, and, -0 being 0, all of l when m is 0
LastFrom(l, m) ==
    IF m = 0 THEN l ELSE SubSeq(l, Max(Len(l) - m, 0) + 1, Len(l))

\* _add_to_history, lines 79-84: the history after the call
add_to_history(h, mh, role, content) ==
    LET h1 == Append(h, Message(role, content))
    IN  IF Len(h1) > mh + 1 THEN << h1[1] >> \o LastFrom(h1, mh) ELSE h1

PlanTokens == {"EXECUTE:", " ", "<"}
\* what chat_completion answers to the planning request
Plans == SeqsOf(PlanTokens, 0, MaxPlanLen)
\* the text of a user message, of a summary, of an exception
Texts == { << "<" >> }

\* html.escape, character by character
HtmlEscape(c) ==
    CASE c = "<" -> "&lt;" [] c = ">" -> "&gt;" [] c = "&" -> "&amp;" [] OTHER -> c
\* _format_response, lines 61-75: the text escaped; the JSON branch of line
\* 67 needs a text that begins with "{", which none of the model does
format_response(text) == [i \in 1..Len(text) |-> HtmlEscape(text[i])]

\* "EXECUTE:" in plan
HasExecute(plan) == \E i \in 1..Len(plan) : plan[i] = "EXECUTE:"
\* plan.split("EXECUTE:", 1)[1].strip(), line 138
CommandLine(plan) ==
    LET i == CHOOSE k \in 1..Len(plan) :
                 plan[k] = "EXECUTE:" /\ \A j \in 1..(k - 1) : plan[j] # "EXECUTE:"
    IN  Strip(SubSeq(plan, i + 1, Len(plan)))
\* command_line.split(" ", 1), line 142
SplitOnce(line) ==
    IF \E i \in 1..Len(line) : line[i] = " "
    THEN LET i == CHOOSE k \in 1..Len(line) : line[k] = " " /\ \A j \in 1..(k - 1) : line[j] # " "
         IN  << SubSeq(line, 1, i - 1), SubSeq(line, i + 1, Len(line)) >>
    ELSE << line >>

Returned(text) == [kind |-> "str", text |-> text]
\* the error strings of lines 144, 173 and 178, through _format_response
InvalidCommand(line) == Returned(format_response(<< "Invalid command format: " >> \o line))
ErrorExecuting(e) == Returned(format_response(<< "Error executing command: " >> \o e))
ErrorProcessing(e) == Returned(format_response(<< "Error processing message: " >> \o e))

\* Chatbot(max_history), lines 37-38
ChatInit ==
    /\ NoManager /\ NoDiscovery /\ NoAction
    /\ max_history \in 0..MaxHistory
    /\ history = << SystemMessage >>
    /\ added = <<>>
    /\ cpc = "idle"
    /\ call_added = <<>>
    /\ ret = NoRet

\* _add_to_history(role, content) called on the chatbot
call_add_to_history(role, content) ==
    /\ cpc = "idle"
    /\ Len(added) < MaxAdds
    /\ history' = add_to_history(history, max_history, role, content)
    /\ added' = Append(added, Message(role, content))
    /\ UNCHANGED << mgr, cls, disc, gh, max_history, cpc, call_added, ret >>

\* lines 88-93: the user message goes to the history, chat_completion is
\* called for the plan
process_message(message) ==
    /\ cpc = "idle"
    /\ Len(added) + 2 <= MaxAdds
    /\ history' = add_to_history(history, max_history, "user", message)
    /\ added' = Append(added, Message("user", message))
    /\ call_added' = << Message("user", message) >>
    /\ cpc' = "plan"
    /\ ret' = NoRet
    /\ UNCHANGED << mgr, cls, disc, gh, max_history >>

\* the call returns text without touching the history
ReturnOnly(r) ==
    /\ ret' = r
    /\ cpc' = "returned"
    /\ UNCHANGED << history, added, call_added >>

\* lines 134-135 and 169-170: the formatted response goes to the history
\* and is returned
Respond(text) ==
    /\ history' = add_to_history(history, max_history, "assistant", text)
    /\ added' = Append(added, Message("assistant", text))
    /\ call_added' = Append(call_added, Message("assistant", text))
    /\ ret' = Returned(text)
    /\ cpc' = "returned"

\* the chat_completion of line 93 is over: it raised (or answered with
\* something that line 132 cannot search), lines 177-180, or it answered
\* with a plan, lines 132-149
plan_done ==
    /\ cpc = "plan"
    /\ \/ \E e \in Texts : ReturnOnly(ErrorProcessing(e))
       \/ \E plan \in Plans :
             IF ~HasExecute(plan)
             THEN Respond(format_response(plan))
             ELSE LET command_line == CommandLine(plan)
                      parts == SplitOnce(command_line)
                  IN  IF Len(parts) # 2
                      THEN ReturnOnly(InvalidCommand(command_line))
                      ELSE /\ cpc' = "execute"
                           /\ UNCHANGED << history, added, call_added, ret >>
    /\ UNCHANGED << mgr, cls, disc, gh, max_history >>

\* the execute_command of line 153 is over: it raised, lines 172-175, or
\* chat_completion is called for the summary, lines 156-167
execute_done ==
    /\ cpc = "execute"
    /\ \/ \E e \in Texts : ReturnOnly(ErrorExecuting(e))
       \/ /\ cpc' = "summary"
          /\ UNCHANGED << history, added, call_added, ret >>
    /\ UNCHANGED << mgr, cls, disc, gh, max_history >>

\* the chat_completion of line 167 is over: it raised, lines 172-175, or
\* its answer is the response, lines 168-170
summary_done ==
    /\ cpc = "summary"
    /\ \/ \E e \in Texts : ReturnOnly(ErrorExecuting(e))
       \/ \E r \in Texts : Respond(format_response(r))
    /\ UNCHANGED << mgr, cls, disc, gh, max_history >>

\* the caller has the returned value
process_return ==
    /\ cpc = "returned"
    /\ cpc' = "idle"
    /\ call_added' = <<>>
    /\ ret' = NoRet
    /\ UNCHANGED << mgr, cls, disc, gh, max_history, history, added >>

ChatNext ==
    \/ \E role \in {"user", "assistant"}, content \in Texts : call_add_to_history(role, content)
    \/ \E message \in Texts : process_message(message)
    \/ plan_done
    \/ execute_done
    \/ summary_done
    \/ process_return

ChatSpec == ChatInit /\ [][ChatNext]_vars

(***************************************************************************)
(* GithubMonitorAction.execute() of src/src/actions/github_monitor.py, cut *)
(* at its await of submit_job.  The job manager is not part of the sources *)
(* at hand: submit_job takes the job and gives back its identifier, a      *)
(* string.                                                                 *)
(***************************************************************************)
Value(v) == [isset |-> TRUE, val |-> v]
\* what the configuration may hold under github.api_token
TokenValues == {None, Value(""), Value("t1"), Value("t2")}
\* a test of line 38 that takes only None for a missing token
Falsy_OnlyNone(v) == ~v.isset
\* not github_token, line 38
Falsy(v) == ~v.isset \/ v.val = ""

\* the identifiers the job manager hands out
JobIds == {ToString(i) : i \in 1..MaxJobs}
JobIdsOf(js) == {js[i].id : i \in 1..Len(js)}
\* GithubMonitorJob(github_token=github_token), line 42, as the manager
\* holds it under the identifier id
GithubMonitorJob(token, id) == [kind |-> "GithubMonitorJob", github_token |-> token, id |-> id]

TokenNotConfigured ==
    << "Error: GitHub API token not configured. Please set LEGION_GITHUB_TOKEN in config." >>
\* the f-string of line 46
Started(job_id) == << "Started GitHub repository synchronization (Job ID: ", job_id, ")" >>

GithubInit ==
    /\ NoManager /\ NoDiscovery /\ NoChatbot
    /\ github_token \in TokenValues
    /\ jobs = <<>>
    /\ gpc = "idle"
    /\ gnew = <<>>
    /\ gret = NoRet

\* lines 36-44: the token is read and tested; without one the error text is
\* returned, with one the job is built and handed to submit_job
execute ==
    /\ gpc = "idle"
    /\ Len(jobs) < MaxJobs
    /\ gnew' = <<>>
    /\ IF Falsy(github_token)
       THEN /\ gret' = Returned(TokenNotConfigured)
            /\ gpc' = "returned"
       ELSE /\ gret' = NoRet
            /\ gpc' = "submit"
    /\ UNCHANGED << mgr, cls, disc, chat, github_token, jobs >>

\* lines 44-46: submit_job has taken the job and given its identifier
submit_job_done ==
    /\ gpc = "submit"
    /\ \E job_id \in JobIds \ JobIdsOf(jobs) :
          LET job == GithubMonitorJob(github_token.val, job_id)
          IN  /\ jobs' = Append(jobs, job)
              /\ gnew' = Append(gnew, job)
              /\ gret' = Returned(Started(job_id))
    /\ gpc' = "returned"
    /\ UNCHANGED << mgr, cls, disc, chat, github_token >>

\* the caller has the returned value
execute_return ==
    /\ gpc = "returned"
    /\ gpc' = "idle"
    /\ gnew' = <<>>
    /\ gret' = NoRet
    /\ UNCHANGED << mgr, cls, disc, chat, github_token, jobs >>

GithubNext ==
    \/ execute
    \/ submit_job_done
    \/ execute_return

GithubSpec == GithubInit /\ [][GithubNext]_vars

(***************************************************************************)
(* Reading the log of a start() or stop() call.                            *)
(***************************************************************************)
StopOver == pc \in {"stop_returned", "stop_raised"}
\* the call went past the configuration gate
PastGate == Logged(Ev("WebhookServer.get_instance", 0, "ok"))

\* the import of some plugin module raised in this call's discovery
DiscoveryRaised ==
    \E m \in 1..Len(PluginModules) : Logged(Ev("_discover_watchers", m, "raise"))

WatcherOps == {"construct", "initialize", "register_routes", "start"}

IsConstruct(e) == e[1] = "construct"
\* the instances whose construction this call attempted, in order
ConstructIds ==
    LET cs == SelectSeq(log, IsConstruct)
    IN  [k \in 1..Len(cs) |-> cs[k][2]]
Constructed == { ConstructIds[k] : k \in 1..Len(ConstructIds) }

\* the entries of the active list that discovery returned
KnownPositions == { i \in 1..Len(active_watchers) : active_watchers[i] \in Discovered }
\* the instance built for entry i of the active list, 0 when none (yet)
InstanceAt(i) ==
    LET k == Cardinality({ j \in KnownPositions : j <= i })
    IN  IF i \in KnownPositions /\ k <= Len(ConstructIds) THEN ConstructIds[k] ELSE 0

\* some step of bringing up w raised
RaisedIn(w) == \E op \in WatcherOps : Logged(Ev(op, w, "raise"))
\* w went through initialize() and start(), both returned
BroughtUp(w) ==
    /\ Logged(Ev("construct", w, "ok"))
    /\ Logged(Ev("initialize", w, "call")) /\ Logged(Ev("initialize", w, "ok"))
    /\ Logged(Ev("start", w, "call")) /\ Logged(Ev("start", w, "ok"))
\* every event of a watcher of this call lies before position n of the log
WatcherEventsBefore(n) ==
    \A i \in 1..Len(log) : log[i][1] \in WatcherOps => i < n

(***************************************************************************)
(* C1: sibling isolation at startup.  Whatever subset of the watchers of   *)
(* the active list raises in its constructor, initialize(),                *)
(* register_routes() or start(), start() does not raise (nothing but a     *)
(* discovery whose import raised ends start() with an exception); when it  *)
(* returns, every resolvable entry of the list was attempted, every        *)
(* watcher none of whose steps raised had initialize() and start() called  *)
(* and returned, and the listener's start(port) was called after all of    *)
(* them.                                                                   *)
(***************************************************************************)
C1_SiblingIsolation ==
    /\ pc = "start_raised" => DiscoveryRaised
    /\ (pc = "start_returned" /\ PastGate) =>
          /\ Len(ConstructIds) = Cardinality(KnownPositions)
          /\ \A w \in Constructed : ~RaisedIn(w) => BroughtUp(w)
          /\ Logged(Ev("listener.start", webhook_port, "call"))
          /\ WatcherEventsBefore(At(Ev("listener.start", webhook_port, "call")))

\* a start() of two watchers has returned: the first raised in some step,
\* the second was brought up
C1_Witness ==
    /\ pc = "start_returned"
    /\ Len(ConstructIds) = 2
    /\ RaisedIn(ConstructIds[1])
    /\ BroughtUp(ConstructIds[2])
    /\ Logged(Ev("listener.start", webhook_port, "call"))

(***************************************************************************)
(* C2: partial success on unknown names.  For an active list with names    *)
(* discovery does not return, start() returns without raising once         *)
(* discovery has returned; exactly the unknown entries are skipped,        *)
(* nothing is constructed or called for them,                              *)
(* and every known entry is constructed and, unless one of its own steps   *)
(* raises, initialized and started.                                        *)
(***************************************************************************)
C2_UnknownNamesSkipped ==
    /\ pc = "start_raised" => DiscoveryRaised
    /\ (pc = "start_returned" /\ PastGate) =>
          \A i \in 1..Len(active_watchers) :
             IF active_watchers[i] \in Discovered
             THEN /\ ~Logged(Ev("skip", i, "warning"))
                  /\ InstanceAt(i) # 0
                  /\ ~RaisedIn(InstanceAt(i)) => BroughtUp(InstanceAt(i))
             ELSE /\ Logged(Ev("skip", i, "warning"))
                  /\ InstanceAt(i) = 0
    /\ PastGate => Len(ConstructIds) <= Cardinality(KnownPositions)

\* a start() has returned whose list holds an unknown name before a known
\* one, and the known watcher was brought up
C2_Witness ==
    /\ pc = "start_returned"
    /\ Len(active_watchers) = 2
    /\ active_watchers[1] \notin Discovered
    /\ active_watchers[2] \in Discovered
    /\ Logged(Ev("skip", 1, "warning"))
    /\ BroughtUp(InstanceAt(2))

(***************************************************************************)
(* C3: stop isolation.  With a non-empty active map, whatever subset of    *)
(* the watchers' stop() raises, stop() has called stop() on every active   *)
(* watcher by the time it is over, no watcher's exception leaves stop()    *)
(* (only the listener's own stop() can make it raise), the listener's      *)
(* stop() is called, and the map is cleared when stop() returns.           *)
(***************************************************************************)
TaskIds == { stop_tasks[i].id : i \in 1..Len(stop_tasks) }

C3_StopIsolation ==
    (StopOver /\ stop_tasks # <<>>) =>
        /\ TaskIds = WatcherIds \/ watchers = <<>>
        /\ \A w \in TaskIds :
              /\ Logged(Ev("stop", w, "call"))
              /\ Logged(Ev("stop", w, "ok")) \/ Logged(Ev("stop", w, "raise"))
        /\ webhook_server => Logged(Ev("listener.stop", 0, "call"))
        /\ pc = "stop_raised" => Logged(Ev("listener.stop", 0, "raise"))
        /\ pc = "stop_returned" => watchers = <<>>

\* a stop() of two watchers has returned: the first watcher's stop() raised,
\* the second's returned, the listener was stopped and the map is empty
C3_Witness ==
    /\ pc = "stop_returned"
    /\ Len(stop_tasks) = 2
    /\ Logged(Ev("stop", stop_tasks[1].id, "raise"))
    /\ Logged(Ev("stop", stop_tasks[2].id, "ok"))
    /\ Logged(Ev("listener.stop", 0, "ok"))
    /\ watchers = <<>>


(***************************************************************************)
(* C4: a watcher whose initialize() raised is not passed to                *)
(* register_routes(), has no start() called on it, and its name is not in  *)
(* self.watchers in any later state of that start() call; an instance in   *)
(* the map was put there after its initialize() returned.                  *)
(***************************************************************************)
\* the name under which instance w of this call was configured
NameOf(w) == active_watchers[CHOOSE i \in KnownPositions : InstanceAt(i) = w]

C4_FailedInitNeverActive ==
    \A w \in Constructed :
        /\ Logged(Ev("initialize", w, "raise")) =>
              /\ \A res \in {"ok", "raise"} : ~Logged(Ev("register_routes", w, res))
              /\ \A res \in {"call", "ok", "raise"} : ~Logged(Ev("start", w, res))
              /\ NameOf(w) \notin WatcherNames
        /\ w \in WatcherIds => Logged(Ev("initialize", w, "ok"))

(***************************************************************************)
(* C5: when start() returns, every watcher it recorded in self.watchers    *)
(* had initialize() and start() both return, and a watcher whose           *)
(* register_routes() or start() raised is not in the map.                  *)
(***************************************************************************)
C5_ActiveOnlyAfterStart ==
    (pc = "start_returned" /\ PastGate) =>
        \A w \in Constructed :
            /\ w \in WatcherIds => BroughtUp(w)
            /\ (Logged(Ev("register_routes", w, "raise")) \/ Logged(Ev("start", w, "raise")))
                  => w \notin WatcherIds

(***************************************************************************)
(* C6: no-op start.  A start() call that finds R4DAR_WATCHERS unset or     *)
(* empty and the configuration missing, without "enabled", with enabled    *)
(* false, or with a missing or empty active_watchers returns at once: it   *)
(* does not raise, acquires no listener, runs no discovery, constructs no  *)
(* watcher, and leaves self.watchers and self.webhook_server as they were. *)
(***************************************************************************)
\* the configurations the claim lists
ClosedConfig(d) ==
    \/ DOMAIN d = {}
    \/ "enabled" \notin DOMAIN d
    \/ d["enabled"] = FALSE
    \/ "active_watchers" \notin DOMAIN d
    \/ d["active_watchers"] = <<>>

StartPcs == {"start_acquire", "start_loop", "start_initialize", "start_start", "start_listener",
             "start_returned", "start_raised"}

C6_NoOpStart ==
    [][ ( /\ pc = "idle"
          /\ pc' \in StartPcs
          /\ (~env_watchers'.isset \/ env_watchers'.val = <<>>)
          /\ ClosedConfig(cfg) )
        => ( /\ pc' = "start_returned"
             /\ log' = <<>>
             /\ watchers' = watchers
             /\ webhook_server' = webhook_server
             /\ srv' = srv
             /\ nextId' = nextId
             /\ cfg' = cfg ) ]_vars

\* a start() that found the variable set but empty and the watchers disabled
\* has returned, with no listener and an empty map
C6_Witness ==
    /\ pc = "start_returned"
    /\ env_watchers.isset /\ env_watchers.val = <<>>
    /\ "enabled" \in DOMAIN cfg /\ cfg["enabled"] = FALSE
    /\ log = <<>>
    /\ ~webhook_server
    /\ watchers = <<>>

(***************************************************************************)
(* C7: environment override.  When R4DAR_WATCHERS is a non-empty string,   *)
(* start() goes past the gate whatever the configuration says, and its     *)
(* active list is the string's comma-separated entries, in order, each     *)
(* without its leading and trailing whitespace; the configuration's        *)
(* active_watchers is not used.                                            *)
(***************************************************************************)
RECURSIVE Flatten(_)
Flatten(ss) == IF ss = <<>> THEN <<>> ELSE Head(ss) \o Flatten(Tail(ss))

NotSpace(c) == c # " "
NotComma(c) == c # ","
NotSpaceOrComma(c) == c # " " /\ c # ","

\* e occurs in s as a run of consecutive characters
Substring(e, s) ==
    \E k \in 0..(Len(s) - Len(e)) : \A j \in 1..Len(e) : s[k + j] = e[j]

\* list is what the comma-separated string s lists
ListsEntriesOf(list, s) ==
    /\ Len(list) = Len(s) - Len(SelectSeq(s, NotComma)) + 1
    /\ \A i \in 1..Len(list) :
          /\ SelectSeq(list[i], NotComma) = list[i]
          /\ list[i] # <<>> => (list[i][1] # " " /\ list[i][Len(list[i])] # " ")
          /\ Substring(list[i], s)
    /\ SelectSeq(Flatten(list), NotSpace) = SelectSeq(s, NotSpaceOrComma)

C7_EnvOverride ==
    (pc \in StartPcs /\ env_watchers.isset /\ env_watchers.val # <<>>) =>
        /\ pc = "start_acquire"
        /\ ListsEntriesOf(active_watchers, env_watchers.val)

\* a start() is past the gate on the list the variable gave, " a" stripped
\* to "a", while the stored configuration has the watchers disabled and
\* names another list
C7_Witness ==
    /\ pc = "start_acquire"
    /\ env_watchers = [isset |-> TRUE, val |-> <<",", " ", "a">>]
    /\ active_watchers = << <<>>, NameA >>
    /\ "enabled" \in DOMAIN cfg /\ ~cfg["enabled"]
    /\ "active_watchers" \in DOMAIN cfg /\ cfg["active_watchers"] # active_watchers


(***************************************************************************)
(* C8: in a start() call past the gate the listener's start(port) is       *)
(* called once, after every entry of the active list has been dealt with   *)
(* (skipped, or its constructor, initialize(), register_routes() and       *)
(* start() calls all over), and with the configured webhook_port, 8080     *)
(* when the key is absent.                                                 *)
(***************************************************************************)
\* entry i of the active list has been dealt with
Attempted(i) ==
    IF active_watchers[i] \in Discovered
    THEN InstanceAt(i) # 0 /\ (RaisedIn(InstanceAt(i)) \/ BroughtUp(InstanceAt(i)))
    ELSE Logged(Ev("skip", i, "warning"))

ConfiguredWebhookPort ==
    IF "webhook_port" \in DOMAIN cfg THEN cfg["webhook_port"] ELSE DefaultWebhookPort

C8_ListenerStartedOnceLast ==
    /\ Count("listener.start", "call") <= 1
    /\ (pc = "start_returned" /\ PastGate) => Count("listener.start", "call") = 1
    /\ \A n \in 1..Len(log) :
          (log[n][1] = "listener.start" /\ log[n][3] = "call") =>
              /\ log[n][2] = ConfiguredWebhookPort
              /\ \A i \in 1..Len(active_watchers) : Attempted(i)
              /\ WatcherEventsBefore(n)
    /\ (pc = "start_returned" /\ Logged(Ev("listener.start", ConfiguredWebhookPort, "ok")))
          => (srv = "listening" /\ srvPort = ConfiguredWebhookPort)

\* a start() of two watchers has returned with the listener started on the
\* default port, the configuration naming none
C8_Witness ==
    /\ pc = "start_returned"
    /\ "webhook_port" \notin DOMAIN cfg
    /\ Len(ConstructIds) = 2
    /\ BroughtUp(ConstructIds[1]) /\ BroughtUp(ConstructIds[2])
    /\ Logged(Ev("listener.start", DefaultWebhookPort, "ok"))
    /\ srvPort = DefaultWebhookPort

(***************************************************************************)
(* C9: a listener whose start(port) raises is not fatal.  start() returns  *)
(* without raising, no watcher's stop() is called, and self.watchers is    *)
(* what it was before the listener's start was attempted.                  *)
(***************************************************************************)
NoStopIn(l) == \A i \in 1..Len(l) : l[i][1] # "stop"

C9_ListenerFailureNotFatal ==
    [][ /\ pc' = "start_listener" => watchers' = watchers
        /\ (pc = "start_listener" /\ LoggedIn(log', Ev("listener.start", webhook_port, "raise")))
              => ( /\ pc' = "start_returned"
                   /\ watchers' = watchers
                   /\ NoStopIn(log')
                   /\ srv' = srv ) ]_vars

\* a start() has returned after the listener's start raised, with the
\* watcher it brought up still in the map
C9_Witness ==
    /\ pc = "start_returned"
    /\ Logged(Ev("listener.start", webhook_port, "raise"))
    /\ Len(ConstructIds) = 1
    /\ BroughtUp(ConstructIds[1])
    /\ WatcherIds = {ConstructIds[1]}

(***************************************************************************)
(* C10: shutdown ordering.  In every stop() the listener's stop() is       *)
(* called only after the stop() of every active watcher has returned or    *)
(* raised: none is pending or suspended when the listener's stop begins.   *)
(***************************************************************************)
C10_ListenerStoppedLast ==
    \A n \in 1..Len(log) :
        log[n] = Ev("listener.stop", 0, "call") =>
            /\ \A k \in 1..Len(stop_tasks) :
                  \E m \in 1..(n - 1) :
                      \/ log[m] = Ev("stop", stop_tasks[k].id, "ok")
                      \/ log[m] = Ev("stop", stop_tasks[k].id, "raise")
            /\ \A m \in (n + 1)..Len(log) : log[m][1] # "stop"

\* the listener's stop() has been called in a stop() of two watchers, the
\* first of which was suspended while the second ran and settled last
C10_Witness ==
    /\ Logged(Ev("listener.stop", 0, "call"))
    /\ Len(stop_tasks) = 2
    /\ At(Ev("stop", stop_tasks[2].id, "ok")) # 0
    /\ At(Ev("stop", stop_tasks[1].id, "ok")) > At(Ev("stop", stop_tasks[2].id, "ok"))

(***************************************************************************)
(* C11: stop idempotence.  A stop() called when the call before it was a   *)
(* stop() that returned calls stop() on no watcher, does nothing to the    *)
(* webhook listener, leaves the map empty and does not raise.              *)
(***************************************************************************)
StopPcs == {"stop_gather", "stop_listener", "stop_returned", "stop_raised"}
ListenerOps == {"listener.start", "listener.stop"}

C11_StopIdempotent ==
    (prior = "returned" /\ pc \in StopPcs) =>
        /\ stop_tasks = <<>>
        /\ \A n \in 1..Len(log) : log[n][1] # "stop" /\ log[n][1] \notin ListenerOps
        /\ watchers = <<>>
        /\ pc # "stop_raised"

(***************************************************************************)
(* C12: when a stop() begun with a listener held and any number of active  *)
(* watchers returns, whatever subset of the watchers' stop() raised, the   *)
(* map is empty: list_watchers() gives [] and get_watcher(n) gives None    *)
(* for every name, and the listener's stop() has been called.              *)
(***************************************************************************)
AllNames == {NameA, NameB, NameX, <<>>}

C12_StoppedMeansEmpty ==
    (pc = "stop_returned" /\ webhook_server) =>
        /\ list_watchers = <<>>
        /\ \A n \in AllNames : get_watcher(n) = 0
        /\ Logged(Ev("listener.stop", 0, "call"))
        /\ At(Ev("listener.stop", 0, "ok")) > At(Ev("listener.stop", 0, "call"))

\* a stop() of two active watchers has returned: the stop() of both raised,
\* the listener was stopped, and the map is empty
C12_Witness ==
    /\ pc = "stop_returned"
    /\ Len(stop_tasks) = 2
    /\ stop_tasks[1].st = "raise" /\ stop_tasks[2].st = "raise"
    /\ Logged(Ev("listener.stop", 0, "ok"))
    /\ srv = "stopped"
    /\ list_watchers = <<>>
    /\ get_watcher(NameA) = 0 /\ get_watcher(NameB) = 0

(***************************************************************************)
(* C13: bounded shutdown.  Every stop() that has handed the watchers'      *)
(* stop() to gather eventually goes on to the listener and ends, also when *)
(* the stop() of some watcher never completes.                             *)
(***************************************************************************)
C13_BoundedShutdown == (pc = "stop_gather") ~> StopOver

(***************************************************************************)
(* C14: discovery isolation.  When the import of a plugin module raises,   *)
(* discovery skips that module, and start() does not raise but goes on to  *)
(* the watchers of the active list.                                        *)
(***************************************************************************)
C14_DiscoveryIsolation ==
    DiscoveryRaised => pc \in StartPcs \ {"start_raised"}

(***************************************************************************)
(* C15: the singleton.  Over any sequence of get_instance() and            *)
(* WatcherManager() calls at most one instance is ever constructed; every  *)
(* get_instance() that returns gives that instance, and none raises once   *)
(* it exists; a direct construction while an instance exists raises        *)
(* RuntimeError and leaves the instance in place.                          *)
(***************************************************************************)
\* an instance existed when call n was made
ExistedBefore(n) == \E k \in 1..(n - 1) : results[k].res = "ok"
\* the instance the calls before n had built
InstanceBefore(n) == results[CHOOSE k \in 1..(n - 1) : results[k].res = "ok"].id

C15_Singleton ==
    /\ made <= 1
    /\ \A n \in 1..Len(results) :
          /\ results[n].res = "ok" => (results[n].id = 1 /\ instance = 1 /\ made = 1)
          /\ ExistedBefore(n) =>
                /\ InstanceBefore(n) = instance
                /\ results[n].op = "get_instance" =>
                      (results[n].res = "ok" /\ results[n].id = InstanceBefore(n))
                /\ results[n].op = "WatcherManager" => results[n].res = "RuntimeError"
          /\ results[n].res = "RuntimeError" => ExistedBefore(n)

\* a construction failed, get_instance() then built the instance, a direct
\* construction was refused, and get_instance() gave the same instance again
C15_Witness ==
    /\ Len(results) >= 4
    /\ results[1].res = "raise"
    /\ results[2] = [op |-> "get_instance", res |-> "ok", id |-> 1]
    /\ results[3] = [op |-> "WatcherManager", res |-> "RuntimeError", id |-> 0]
    /\ results[4] = [op |-> "get_instance", res |-> "ok", id |-> 1]
    /\ instance = 1

(***************************************************************************)
(* C16: no duplicate activation.  In one start() at most one instance is   *)
(* constructed, initialized and started for a name, however often the name *)
(* occurs in the active list.                                              *)
(***************************************************************************)
\* the names of the active list that discovery returned
KnownNames == { active_watchers[i] : i \in KnownPositions }
CountOp(op, res) == Cardinality({ n \in 1..Len(log) : log[n][1] = op /\ log[n][3] = res })

C16_NoDuplicateActivation ==
    /\ Len(ConstructIds) <= Cardinality(KnownNames)
    /\ CountOp("initialize", "call") <= Cardinality(KnownNames)
    /\ CountOp("start", "call") <= Cardinality(KnownNames)

(***************************************************************************)
(* C17: frozen route table.  Over any sequence of start() and stop() calls *)
(* no watcher's register_routes() is invoked on the listener once the      *)
(* listener's start(port) has been called: a listener that is listening or *)
(* was stopped has had it called.                                          *)
(***************************************************************************)
C17_FrozenRouteTable ==
    [][ srv # "new" =>
          \A n \in (Len(log) + 1)..Len(log') : log'[n][1] # "register_routes" ]_vars

(***************************************************************************)
(* C18: sequential startup.  Within one start() the entries are taken in   *)
(* the order of the active list, and for two watchers A before B every     *)
(* call made on A (constructor, initialize(), register_routes(), start())  *)
(* is over before B is constructed: the steps of two watchers never        *)
(* interleave.                                                             *)
(***************************************************************************)
\* where in the log instance w was constructed
ConstructPos(w) == CHOOSE n \in 1..Len(log) : log[n][1] = "construct" /\ log[n][2] = w
\* the place of an operation in the lifecycle of one watcher
OpRank(op) ==
    CASE op = "construct" -> 1 [] op = "initialize" -> 2
      [] op = "register_routes" -> 3 [] op = "start" -> 4
IsWatcherEvent(e) == e[1] \in WatcherOps
\* an entry of the active list is taken up: skipped, or its class constructed
IsTakeUp(e) == e[1] \in {"skip", "construct"}

\* the calls made on watchers, in order: they begin with a constructor call;
\* a call that was made is followed by its return or its raise; the next
\* event is a later operation on the same watcher, or the construction of a
\* new one, and then the call before it is over
StepsInSequence(we) ==
    /\ we # <<>> => we[1][1] = "construct"
    /\ \A k \in 1..(Len(we) - 1) :
          /\ we[k][3] = "call" =>
                (we[k + 1][1] = we[k][1] /\ we[k + 1][2] = we[k][2] /\ we[k + 1][3] # "call")
          /\ IF we[k + 1][1] = "construct"
             THEN we[k][3] # "call" /\ we[k + 1][2] > we[k][2]
             ELSE we[k + 1][2] = we[k][2] /\ OpRank(we[k][1]) <= OpRank(we[k + 1][1])

\* the entries taken up so far are the first ones of the list, in its order
TakenInListOrder(tu) ==
    /\ Len(tu) <= Len(active_watchers)
    /\ Len(tu) = (IF pc = "start_loop" THEN idx - 1
                  ELSE IF pc \in {"start_initialize", "start_start"} THEN idx
                  ELSE Len(active_watchers))
    /\ \A k \in 1..Len(tu) :
          IF active_watchers[k] \in Discovered
          THEN tu[k][1] = "construct"
          ELSE tu[k] = Ev("skip", k, "warning")

C18_SequentialStartup ==
    (pc \in StartPcs /\ PastGate /\ ~DiscoveryRaised) =>
        /\ pc \in {"start_initialize", "start_start"} =>
              (watcher # 0 /\ watcher = log[Len(log)][2])
        /\ StepsInSequence(SelectSeq(log, IsWatcherEvent))
        /\ TakenInListOrder(SelectSeq(log, IsTakeUp))

\* a start() of the list [a, b] has returned: a was initialized, registered
\* and started, all before b was constructed, and b was brought up after it
C18_Witness ==
    /\ pc = "start_returned"
    /\ active_watchers = << NameA, NameB >>
    /\ Len(ConstructIds) = 2
    /\ Logged(Ev("register_routes", ConstructIds[1], "ok"))
    /\ BroughtUp(ConstructIds[1]) /\ BroughtUp(ConstructIds[2])
    /\ At(Ev("start", ConstructIds[1], "ok")) < ConstructPos(ConstructIds[2])

(***************************************************************************)
(* C19: a route conflict aborts only the offending watcher.  When the      *)
(* register_routes() of a watcher raises, its start() is never called, the *)
(* watchers brought up before it in the same start() stay recorded in the  *)
(* map, and the entries after it in the list are still attempted.          *)
(***************************************************************************)
RouteConflict(w) == Logged(Ev("register_routes", w, "raise"))

C19_RouteConflictLocal ==
    \A w \in Constructed :
        RouteConflict(w) =>
            /\ \A res \in {"call", "ok", "raise"} : ~Logged(Ev("start", w, res))
            /\ \A v \in Constructed :
                  (BroughtUp(v) /\ ConstructPos(v) < ConstructPos(w)) => v \in WatcherIds
            /\ pc = "start_returned" =>
                  \A i \in 1..Len(active_watchers) : Attempted(i)

(***************************************************************************)
(* C20: concurrent stop fan-out.  In stop() the stop() of every active     *)
(* watcher is issued before any of them runs, and for two active watchers  *)
(* A and B the stop() of B begins while the stop() of A is suspended: it   *)
(* does not wait for A's to finish.                                        *)
(***************************************************************************)
\* where the stop() of task k began, returned or raised; 0 when it did not yet
BeganAt(k) == At(Ev("stop", stop_tasks[k].id, "call"))
SettledAt(k) ==
    IF Logged(Ev("stop", stop_tasks[k].id, "ok")) THEN At(Ev("stop", stop_tasks[k].id, "ok"))
    ELSE At(Ev("stop", stop_tasks[k].id, "raise"))
\* the stop() of task k suspended: it did not settle in the step it began in
Suspended(k) == Logged(Ev("stop", stop_tasks[k].id, "suspend"))

C20_ConcurrentFanOut ==
    /\ \A k \in 1..Len(stop_tasks) : log[k] = Ev("stop", stop_tasks[k].id, "issued")
    /\ \A n \in (Len(stop_tasks) + 1)..Len(log) : log[n][3] # "issued"
    /\ \A a, b \in 1..Len(stop_tasks) :
          (a # b /\ Suspended(a) /\ SettledAt(a) # 0) =>
              (BeganAt(b) # 0 /\ BeganAt(b) < SettledAt(a))
    /\ (pc = "stop_gather" /\ \E k \in 1..Len(stop_tasks) : stop_tasks[k].st = "issued") =>
          ENABLED (\E k \in 1..Len(stop_tasks) : stop_task_first(k))

\* in a stop() of two watchers the stop() of the first is suspended and has
\* not finished, and the stop() of the second has begun and returned
C20_Witness ==
    /\ pc = "stop_gather"
    /\ Len(stop_tasks) = 2
    /\ stop_tasks[1].st = "running"
    /\ BeganAt(1) # 0 /\ SettledAt(1) = 0
    /\ BeganAt(2) > BeganAt(1)
    /\ Logged(Ev("stop", stop_tasks[2].id, "ok"))

(***************************************************************************)
(* C24: no leaked watcher.  A watcher instance whose start() returned is   *)
(* in the map, from which alone the next stop() takes the watchers it      *)
(* stops, until it is stopped: start() drops no started instance from the  *)
(* map.                                                                    *)
(***************************************************************************)
C24_NoLeakedWatcher ==
    \A w \in Constructed : Logged(Ev("start", w, "ok")) => w \in WatcherIds

(***************************************************************************)
(* C25: stop() clears the map on every exit path.  When the listener's     *)
(* stop() raised, the map is empty once stop() is over, and the stop()     *)
(* called after it finds no watcher to stop a second time.                 *)
(***************************************************************************)
C25_StopClearsOnEveryPath ==
    /\ pc = "stop_raised" => watchers = <<>>
    /\ (prior = "raised" /\ pc \in StopPcs) => stop_tasks = <<>>

(***************************************************************************)
(* C21: discovery resolves by module name without collision.  The dict     *)
(* _discover_watchers() returns has no key manager or webhook_server and   *)
(* no value WatcherJob; every name in it maps to a watcher class that the  *)
(* module of that name implements, and no class stands under two names.    *)
(***************************************************************************)
C21_ResolvesByModuleName ==
    watcher_classes.run =>
        LET c == watcher_classes.classes
        IN  /\ NameManager \notin DOMAIN c
            /\ NameWebhookServer \notin DOMAIN c
            /\ \A k \in DOMAIN c : c[k] # WatcherJob
            /\ \A k \in DOMAIN c : c[k].kind = "subclass" /\ c[k].home = k
            /\ \A j, k \in DOMAIN c : j # k => c[j] # c[k]

\* the last k elements of l
LastOf(l, k) == SubSeq(l, Len(l) - k + 1, Len(l))

\* C22: for every max_history >= 0 and after any sequence of
\* _add_to_history calls, the history has at most max_history + 1 entries,
\* begins with the original system message, and holds after it exactly the
\* most recent min(n, max_history) added messages, in the order of adding.
C22_HistoryBound ==
    history # <<>> =>
        /\ Len(history) <= max_history + 1
        /\ history[1] = SystemMessage
        /\ Tail(history) = LastOf(added, Min(Len(added), max_history))

\* C26: process_message never raises and keeps the history paired: whatever
\* chat_completion and execute_command do, it returns a string, and when it
\* has returned every user message the call appended to the history is
\* followed by an assistant message the same call appended.
C26_ReturnsStringKeepsPairs ==
    cpc = "returned" =>
        /\ ret.kind = "str"
        /\ \A i \in 1..Len(call_added) :
              call_added[i].role = "user" =>
                  \E j \in (i + 1)..Len(call_added) : call_added[j].role = "assistant"

\* C23: GithubMonitorAction.execute submits at most one job per call: when
\* the github.api_token value is missing or empty it returns the "GitHub API
\* token not configured" error text and submits no job; otherwise it submits
\* exactly one GithubMonitorJob, carrying the token, to the job manager and
\* returns a message that contains the identifier submit_job returned.
C23_AtMostOneJob ==
    /\ Len(gnew) <= 1
    /\ gpc = "returned" =>
          IF ~github_token.isset \/ github_token.val = ""
          THEN /\ gret = Returned(TokenNotConfigured)
               /\ gnew = <<>>
          ELSE /\ Len(gnew) = 1
               /\ gnew[1].kind = "GithubMonitorJob"
               /\ gnew[1].github_token = github_token.val
               /\ jobs # <<>> /\ jobs[Len(jobs)] = gnew[1]
               /\ \A i \in 1..(Len(jobs) - 1) : jobs[i].id # gnew[1].id
               /\ gret.kind = "str"
               /\ \E i \in 1..Len(gret.text) : gret.text[i] = gnew[1].id

\* a second call with a token has returned: its one job is behind the
\* job of the first call
C23_Witness ==
    /\ gpc = "returned"
    /\ github_token.isset /\ github_token.val # ""
    /\ Len(gnew) = 1
    /\ Len(jobs) = 2
    /\ gret = Returned(Started(gnew[1].id))

====
